---- MODULE Spec2Model ----
(***************************************************************************)
(* Model of the pokemon REST API of src/index.js: the express handlers of  *)
(* GET /pokemons, POST /pokemons, PUT /pokemons/:id and                    *)
(* DELETE /pokemons/:id over one mongoose collection and the asset         *)
(* directory.  Every handler is an async function: it runs without         *)
(* interruption up to its next await, so each action below is one store    *)
(* operation (or the settling of the image fetch) together with the        *)
(* handler code that follows it up to the next await.                      *)
(***************************************************************************)
EXTENDS Integers, Sequences, FiniteSets, TLC

\* ------------------------------------------------------------------ bounds
\* Number of requests that can be in flight at the same time.
NProcs == 2
\* Number of requests received over a run.
MaxRequests == 3
\* Number of requests received over a run in which requests interleave.
MaxRacing == 2

Procs == 1..NProcs

\* ------------------------------------------------------- program constants
DefaultPage == 1
DefaultLimit == 20
DefaultStat == 50

Stats == {"HP", "Attack", "Defense", "SpecialAttack", "SpecialDefense", "Speed"}
Locales == {"english", "japanese", "chinese", "french"}

\* ------------------------------------------------------------- JS helpers
\* Strings that the code parses are sequences of one-character strings.
Digits == {"0", "1", "2", "3", "4", "5", "6", "7", "8", "9"}

DigitVal(c) ==
    CASE c = "0" -> 0 [] c = "1" -> 1 [] c = "2" -> 2 [] c = "3" -> 3
      [] c = "4" -> 4 [] c = "5" -> 5 [] c = "6" -> 6 [] c = "7" -> 7
      [] c = "8" -> 8 [] c = "9" -> 9

NaN == [nan |-> TRUE, val |-> 0]
Number(n) == [nan |-> FALSE, val |-> n]

\* Value of the longest prefix of digits of s, continuing from acc.
RECURSIVE DigitPrefix(_, _)
DigitPrefix(s, acc) ==
    IF s = << >> \/ Head(s) \notin Digits
    THEN acc
    ELSE DigitPrefix(Tail(s), 10 * acc + DigitVal(Head(s)))

RECURSIVE TrimLeft(_)
TrimLeft(s) ==
    IF s # << >> /\ Head(s) = " " THEN TrimLeft(Tail(s)) ELSE s

\* parseInt(s, 10): leading blanks, an optional sign, then the longest run of
\* digits; NaN when there is no digit there (also for undefined, the empty
\* sequence here).
ParseInt(s) ==
    LET t == TrimLeft(s)
        neg == t # << >> /\ Head(t) = "-"
        u == IF t # << >> /\ Head(t) \in {"-", "+"} THEN Tail(t) ELSE t
    IN  IF u = << >> \/ Head(u) \notin Digits
        THEN NaN
        ELSE Number(IF neg THEN 0 - DigitPrefix(u, 0) ELSE DigitPrefix(u, 0))

\* parseInt(x, 10) || d : NaN and 0 are falsy.
OrDefault(x, d) == IF x.nan \/ x.val = 0 THEN d ELSE x.val

\* Math.ceil(a / b) for a >= 0 and b # 0.
Ceil(a, b) ==
    IF b > 0 THEN (a + b - 1) \div b ELSE 0 - (a \div (0 - b))

\* obj.key || fallback on an object whose keys are DOMAIN obj: an absent key
\* reads undefined, and 0 and the empty string are falsy.
Has(obj, k) == k \in DOMAIN obj
TruthyNum(obj, k) == Has(obj, k) /\ obj[k] # 0
TruthyStr(obj, k) == Has(obj, k) /\ obj[k] # ""

\* ------------------------------------------------------------ the store
NoDoc == [id |-> 0]

ImageUri(id) == "http://localhost:3000/assets/pokemons/" \o ToString(id) \o ".png"

Ids(s) == {s[i].id : i \in 1..Len(s)}

MaxOf(S) == CHOOSE m \in S : \A x \in S : x <= m

\* pokemon.findOne({}).sort({ id: -1 })
FindLast(s) ==
    IF s = << >> THEN NoDoc
    ELSE s[CHOOSE i \in 1..Len(s) :
               /\ s[i].id = MaxOf(Ids(s))
               /\ \A j \in 1..(i - 1) : s[j].id # s[i].id]

\* Position of the first document with the given id in natural order, 0 if none.
IndexOf(s, id) ==
    IF id \in Ids(s)
    THEN CHOOSE i \in 1..Len(s) : s[i].id = id /\ \A j \in 1..(i - 1) : s[j].id # id
    ELSE 0

\* pokemon.findOne({ id: pokeId })
FindOne(s, id) == IF IndexOf(s, id) = 0 THEN NoDoc ELSE s[IndexOf(s, id)]

\* The collection left by pokemon.findOneAndDelete({ id: pokeId }).
DeleteOne(s, id) ==
    LET k == IndexOf(s, id)
    IN  IF k = 0 THEN s ELSE SubSeq(s, 1, k - 1) \o SubSeq(s, k + 1, Len(s))

\* Insertion of d in a sequence sorted by id, after the documents of equal id.
RECURSIVE InsertSorted(_, _)
InsertSorted(sorted, d) ==
    IF sorted = << >> THEN << d >>
    ELSE IF Head(sorted).id <= d.id
         THEN << Head(sorted) >> \o InsertSorted(Tail(sorted), d)
         ELSE << d >> \o sorted

\* .sort({ id: 1 })
RECURSIVE SortById(_)
SortById(s) ==
    IF s = << >> THEN << >>
    ELSE InsertSorted(SortById(SubSeq(s, 1, Len(s) - 1)), s[Len(s)])

Min(a, b) == IF a <= b THEN a ELSE b

\* pokemon.find({}).sort({ id: 1 }).skip(skip).limit(limit) for skip >= 0; the
\* driver sends a negative limit as its absolute value.
FindPage(s, skip, limit) ==
    LET n == IF limit < 0 THEN 0 - limit ELSE limit
    IN  SubSeq(SortById(s), skip + 1, Min(Len(s), skip + n))

\* ------------------------------------------------------------- the inputs
HttpImage == "http://img.example/a.png"

\* image.startsWith('http')
StartsWithHttp(image) == image \in {HttpImage}

EmptyObject == << >>

\* POST /pokemons: the fields of req.body after JSON.parse, and whether multer
\* stored an uploaded imageFile.
PostRequests ==
    { [body |-> [name |-> [french |-> "Test"], type |-> << "Grass" >>,
                 base |-> EmptyObject], file |-> FALSE],
      [body |-> [name |-> [french |-> "Test"], type |-> << "Grass" >>,
                 base |-> [HP |-> 0, Attack |-> 80], image |-> HttpImage],
       file |-> FALSE],
      [body |-> [name |-> [french |-> "Test"], type |-> << "Grass" >>,
                 base |-> EmptyObject], file |-> TRUE],
      [body |-> [name |-> [english |-> "Test"], type |-> << "Grass" >>,
                 base |-> EmptyObject], file |-> FALSE] }

BodyAttack == [base |-> [Attack |-> 80]]
BodyDefense == [base |-> [Defense |-> 70]]

\* PUT /pokemons/:id bodies.
PutBodies ==
    { EmptyObject,
      BodyAttack,
      BodyDefense,
      [base |-> [Attack |-> 0, Defense |-> 70]],
      [type |-> << "Fire" >>],
      [name |-> [english |-> "Bulbizar", french |-> ""], image |-> "/tmp/b.png"],
      [other |-> 1] }

\* :id path parameters.
IdParams == { << "1" >>, << "2" >> }

\* ?page= and ?limit= values; << >> is an absent parameter.
Queries ==
    { [page |-> << >>, limit |-> << >>],
      [page |-> << "2" >>, limit |-> << "1" >>],
      [page |-> << "1" >>, limit |-> << "2" >>],
      [page |-> << "a" >>, limit |-> << "0" >>],
      [page |-> << "-", "1" >>, limit |-> << "1" >>],
      [page |-> << "1" >>, limit |-> << "-", "2" >>] }

\* Outcomes of the image download: a 2xx answer whose body is read, a non-2xx
\* answer, a rejected fetch, and a body that fails while it is read.
FetchOutcomes == {"ok", "notok", "rejected", "bodyfailed"}

\* -------------------------------------------------------------- the state
VARIABLES
    store,            \* the documents of the collection, in natural order
    files,            \* ids n with a file assets/pokemons/n.png
    pc,               \* per request slot: the await its handler is suspended at
    req,              \* per slot: the request being handled
    newId,            \* per slot: newId of the POST handler
    download,         \* per slot: how the fetch of the POST handler settled
    existingPokemon,  \* per slot: existingPokemon of the PUT handler
    pokemons,         \* per slot: pokemons of the GET handler
    sent,             \* the latest response sent, with the request it answers
    nreq,             \* requests received so far
    deletedIds        \* history: ids of the documents deleted so far

vars == << store, files, pc, req, newId, download, existingPokemon, pokemons,
           sent, nreq, deletedIds >>

NoReq == [kind |-> "NONE", id |-> << >>, body |-> EmptyObject, file |-> FALSE,
          page |-> << >>, limit |-> << >>]
NoResp == [status |-> 0, pokemon |-> NoDoc, data |-> << >>,
           pagination |-> EmptyObject]

InFlight(p) == pc[p] # "idle"

\* The collection when the server starts: the database outlives the server, and
\* here it holds two documents of the imported data set, with their asset files.
Seeded ==
    << [id |-> 1,
        name |-> [english |-> "Bulbasaur", french |-> "Bulbizarre"],
        type |-> << "Grass", "Poison" >>,
        base |-> [HP |-> 45, Attack |-> 49, Defense |-> 49, SpecialAttack |-> 65,
                  SpecialDefense |-> 65, Speed |-> 45],
        image |-> ImageUri(1)],
       [id |-> 2,
        name |-> [english |-> "Ivysaur", french |-> "Herbizarre"],
        type |-> << "Grass", "Poison" >>,
        base |-> [HP |-> 60, Attack |-> 62, Defense |-> 63, SpecialAttack |-> 80,
                  SpecialDefense |-> 80, Speed |-> 60],
        image |-> ImageUri(2)] >>

Init ==
    /\ store = Seeded
    /\ files = Ids(Seeded)
    /\ pc = [p \in Procs |-> "idle"]
    /\ req = [p \in Procs |-> NoReq]
    /\ newId = [p \in Procs |-> 0]
    /\ download = [p \in Procs |-> "none"]
    /\ existingPokemon = [p \in Procs |-> NoDoc]
    /\ pokemons = [p \in Procs |-> << >>]
    /\ sent = [req |-> NoReq, resp |-> NoResp]
    /\ nreq = 0
    /\ deletedIds = {}

\* A request arrives at a free slot p and its handler runs up to its first
\* await, where it is suspended at position to.
Receive(p, r, to) ==
    /\ ~InFlight(p)
    /\ nreq < MaxRequests
    /\ nreq' = nreq + 1
    /\ req' = [req EXCEPT ![p] = r]
    /\ pc' = [pc EXCEPT ![p] = to]
    /\ UNCHANGED << store, files, newId, download, existingPokemon, pokemons, sent,
                    deletedIds >>

\* A request arrives and its handler answers before any await.
Reject(p, r, answer) ==
    /\ ~InFlight(p)
    /\ nreq < MaxRequests
    /\ nreq' = nreq + 1
    /\ sent' = [req |-> r, resp |-> answer]
    /\ UNCHANGED << store, files, pc, req, newId, download, existingPokemon,
                    pokemons, deletedIds >>

\* The handler of slot p sends its response and ends: its locals are gone.
Respond(p, answer) ==
    /\ sent' = [req |-> req[p], resp |-> answer]
    /\ pc' = [pc EXCEPT ![p] = "idle"]
    /\ req' = [req EXCEPT ![p] = NoReq]
    /\ newId' = [newId EXCEPT ![p] = 0]
    /\ download' = [download EXCEPT ![p] = "none"]
    /\ existingPokemon' = [existingPokemon EXCEPT ![p] = NoDoc]
    /\ pokemons' = [pokemons EXCEPT ![p] = << >>]

Status(code) == [NoResp EXCEPT !.status = code]

\* ------------------------------------------------------ GET /pokemons
Page(r) == OrDefault(ParseInt(r.page), DefaultPage)
Limit(r) == OrDefault(ParseInt(r.limit), DefaultLimit)
Skip(r) == (Page(r) - 1) * Limit(r)

Pagination(page, limit, total) ==
    [currentPage |-> page,
     totalPages |-> Ceil(total, limit),
     totalPokemons |-> total,
     limit |-> limit,
     hasNextPage |-> page < Ceil(total, limit),
     hasPrevPage |-> page > 1]

StartGet(p, q) ==
    Receive(p, [NoReq EXCEPT !.kind = "GET", !.page = q.page, !.limit = q.limit],
            "find")

\* await pokemon.find({}).sort({ id: 1 }).skip(skip).limit(limit): the store
\* rejects a negative skip, which the handler answers with 500.
GetFind(p) ==
    /\ pc[p] = "find"
    /\ IF Skip(req[p]) < 0
       THEN Respond(p, Status(500))
       ELSE /\ pokemons' = [pokemons EXCEPT
                              ![p] = FindPage(store, Skip(req[p]), Limit(req[p]))]
            /\ pc' = [pc EXCEPT ![p] = "count"]
            /\ UNCHANGED << req, newId, download, existingPokemon, sent >>
    /\ UNCHANGED << store, files, nreq, deletedIds >>

\* await pokemon.countDocuments(), then res.json({ data, pagination }).
GetCount(p) ==
    /\ pc[p] = "count"
    /\ Respond(p, [NoResp EXCEPT
                     !.status = 200,
                     !.data = pokemons[p],
                     !.pagination = Pagination(Page(req[p]), Limit(req[p]), Len(store))])
    /\ UNCHANGED << store, files, nreq, deletedIds >>

\* ------------------------------------------------- DELETE /pokemons/:id
StartDelete(p, id) ==
    Receive(p, [NoReq EXCEPT !.kind = "DELETE", !.id = id], "delete")

\* await pokemon.findOneAndDelete({ id: pokeId }), then 200 or 404.
DeleteApply(p) ==
    /\ pc[p] = "delete"
    /\ LET pokeId == ParseInt(req[p].id).val
           deletedPoke == FindOne(store, pokeId)
       IN  /\ store' = DeleteOne(store, pokeId)
           /\ deletedIds' = IF deletedPoke = NoDoc THEN deletedIds
                            ELSE deletedIds \cup {pokeId}
           /\ Respond(p, IF deletedPoke = NoDoc THEN Status(404)
                         ELSE [NoResp EXCEPT !.status = 200, !.pokemon = deletedPoke])
    /\ UNCHANGED << files, nreq >>

\* ------------------------------------------------------- POST /pokemons
\* !parsedName || !parsedName.french || !parsedType || !parsedBase
MissingFields(body) ==
    \/ ~Has(body, "name")
    \/ ~TruthyStr(body.name, "french")
    \/ ~Has(body, "type")
    \/ ~Has(body, "base")

\* Variants of the allocation, used to test the sensitivity of the properties
\* of the ids: the number of documents plus one, and the first id not in use.
NextIdByCount(s) == Len(s) + 1
NextIdFirstGap(s) ==
    CHOOSE n \in 1..(Len(s) + 1) : n \notin Ids(s) /\ \A m \in 1..(n - 1) : m \in Ids(s)

\* lastPokemon ? lastPokemon.id + 1 : 1
NextId(s) == IF FindLast(s) = NoDoc THEN 1 ELSE FindLast(s).id + 1

\* new pokemon({ id, name, type, base, image })
NewPokemon(id, body) ==
    [id |-> id,
     name |-> [french |-> body.name.french],
     type |-> body.type,
     base |-> [s \in Stats |->
                 IF TruthyNum(body.base, s) THEN body.base[s] ELSE DefaultStat],
     image |-> ImageUri(id)]

\* Variant: a schema without the index accepts every save().
SaveAlways(s, doc) == TRUE

\* The unique index on id that the schema declares: save() is rejected when a
\* document of the collection already holds the id.
SaveAccepted(s, doc) == doc.id \notin Ids(s)

StartPost(p, r) ==
    LET request == [NoReq EXCEPT !.kind = "POST", !.body = r.body, !.file = r.file]
    IN  IF MissingFields(r.body)
        THEN Reject(p, request, Status(400))
        ELSE Receive(p, request, "alloc")

\* await pokemon.findOne({}).sort({ id: -1 }), newId, then the image: an
\* uploaded file is renamed to <newId>.png, an http image is fetched.
PostAlloc(p) ==
    /\ pc[p] = "alloc"
    /\ newId' = [newId EXCEPT ![p] = NextId(store)]
    /\ IF req[p].file
       THEN /\ files' = files \cup {NextId(store)}
            /\ pc' = [pc EXCEPT ![p] = "save"]
       ELSE IF TruthyStr(req[p].body, "image") /\ StartsWithHttp(req[p].body.image)
            THEN /\ pc' = [pc EXCEPT ![p] = "fetch"]
                 /\ UNCHANGED files
            ELSE /\ pc' = [pc EXCEPT ![p] = "save"]
                 /\ UNCHANGED files
    /\ UNCHANGED << store, req, download, existingPokemon, pokemons, sent, nreq,
                    deletedIds >>

\* Variant: the file is written without the test of response.ok.
FileWrittenUnchecked(outcome) == outcome \in {"ok", "notok"}

\* if (response.ok) { ...arrayBuffer(); fs.writeFileSync(imagePath, buffer) }
FileWritten(outcome) == outcome = "ok"

\* await fetch(image) settles: the file is written only for a 2xx answer whose
\* body was read; every failure is swallowed by the inner catch.
FetchSettle(p, outcome) ==
    /\ pc[p] = "fetch"
    /\ download' = [download EXCEPT ![p] = outcome]
    /\ files' = IF FileWritten(outcome) THEN files \cup {newId[p]} ELSE files
    /\ pc' = [pc EXCEPT ![p] = "save"]
    /\ UNCHANGED << store, req, newId, existingPokemon, pokemons, sent, nreq,
                    deletedIds >>

\* await newPokemon.save(), then 201; a rejected save is answered with 500.
PostSave(p) ==
    /\ pc[p] = "save"
    /\ LET newPokemon == NewPokemon(newId[p], req[p].body)
       IN  IF SaveAccepted(store, newPokemon)
           THEN /\ store' = Append(store, newPokemon)
                /\ Respond(p, [NoResp EXCEPT !.status = 201, !.pokemon = newPokemon])
           ELSE /\ Respond(p, Status(500))
                /\ UNCHANGED store
    /\ UNCHANGED << files, nreq, deletedIds >>

\* --------------------------------------------------- PUT /pokemons/:id
\* name.x || existingPokemon.name.x for the four locales; a locale whose value
\* is undefined on both sides is not a key of the result.
MergeName(name, existing) ==
    [l \in {k \in Locales : TruthyStr(name, k) \/ Has(existing, k)} |->
        IF TruthyStr(name, l) THEN name[l] ELSE existing[l]]

\* Variant: base.X ?? existingPokemon.base.X, which lets a 0 through.
MergeBaseIfPresent(base, existing) ==
    [s \in Stats |-> IF Has(base, s) THEN base[s] ELSE existing[s]]

\* base.X || existingPokemon.base.X for the six stats.
MergeBase(base, existing) ==
    [s \in Stats |-> IF TruthyNum(base, s) THEN base[s] ELSE existing[s]]

TopLevel == {"name", "type", "base", "image"}

\* Variant: updateData.type = type || [] whatever the body holds.
UpdateDataAlwaysType(existing, body) ==
    [k \in {f \in TopLevel : f = "type" \/ (Has(body, f) /\ (f = "image" => body[f] # ""))} |->
        CASE k = "name" -> MergeName(body.name, existing.name)
          [] k = "type" -> IF Has(body, "type") THEN body.type ELSE << >>
          [] k = "base" -> MergeBase(body.base, existing.base)
          [] k = "image" -> body.image]

\* updateData: a key for each of name, type, base, image that the body holds.
UpdateData(existing, body) ==
    [k \in {f \in TopLevel : Has(body, f) /\ (f = "image" => body[f] # "")} |->
        CASE k = "name" -> MergeName(body.name, existing.name)
          [] k = "type" -> body.type
          [] k = "base" -> MergeBase(body.base, existing.base)
          [] k = "image" -> body.image]

\* The collection left by pokemon.findOneAndUpdate({ id: pokeId }, updateData).
UpdateOne(s, id, updateData) ==
    LET k == IndexOf(s, id)
    IN  IF k = 0 THEN s
        ELSE [s EXCEPT ![k] = [f \in DOMAIN s[k] |->
                                 IF f \in DOMAIN updateData THEN updateData[f]
                                 ELSE s[k][f]]]

\* !req.body || Object.keys(req.body).length === 0
StartPut(p, id, body) ==
    LET request == [NoReq EXCEPT !.kind = "PUT", !.id = id, !.body = body]
    IN  IF DOMAIN body = {}
        THEN Reject(p, request, Status(400))
        ELSE Receive(p, request, "lookup")

\* await pokemon.findOne({ id: pokeId }); 404 when there is none.
PutFind(p) ==
    /\ pc[p] = "lookup"
    /\ LET found == FindOne(store, ParseInt(req[p].id).val)
       IN  IF found = NoDoc
           THEN Respond(p, Status(404))
           ELSE /\ existingPokemon' = [existingPokemon EXCEPT ![p] = found]
                /\ pc' = [pc EXCEPT ![p] = "update"]
                /\ UNCHANGED << req, newId, download, pokemons, sent >>
    /\ UNCHANGED << store, files, nreq, deletedIds >>

\* await pokemon.findOneAndUpdate({ id: pokeId }, updateData, { new: true }),
\* then res.json with the document it returned (null when none matched).
PutUpdate(p) ==
    /\ pc[p] = "update"
    /\ LET pokeId == ParseInt(req[p].id).val
           updateData == UpdateData(existingPokemon[p], req[p].body)
       IN  /\ store' = UpdateOne(store, pokeId, updateData)
           /\ Respond(p, [NoResp EXCEPT
                            !.status = 200,
                            !.pokemon = FindOne(UpdateOne(store, pokeId, updateData),
                                                pokeId)])
    /\ UNCHANGED << files, nreq, deletedIds >>

\* ------------------------------------------------------ specifications
\* A step of a handler that is suspended at an await of the store.
Step(p) ==
    \/ GetFind(p)
    \/ GetCount(p)
    \/ DeleteApply(p)
    \/ PostAlloc(p)
    \/ PostSave(p)
    \/ PutFind(p)
    \/ PutUpdate(p)

\* A request arrives at slot p.
Start(p) ==
    \/ \E q \in Queries : StartGet(p, q)
    \/ \E id \in IdParams : StartDelete(p, id)
    \/ \E r \in PostRequests : StartPost(p, r)
    \/ \E id \in IdParams, body \in PutBodies : StartPut(p, id, body)

\* The remote image host answers or the connection fails.
Settle(p) == \E outcome \in FetchOutcomes : FetchSettle(p, outcome)

\* Requests interleave at every await.
Next == \E p \in Procs : (nreq < MaxRacing /\ Start(p)) \/ Step(p) \/ Settle(p)

Spec == Init /\ [][Next]_vars

\* One request at a time: a request arrives only when no handler is suspended.
Quiet == \A q \in Procs : ~InFlight(q)

NextSeq == \E p \in Procs : (Quiet /\ Start(p)) \/ Step(p) \/ Settle(p)

SpecSeq == Init /\ [][NextSeq]_vars

\* The store answers every operation, so a handler suspended at an await of the
\* store resumes; nothing makes the remote image host answer, nor a client send.
FairSpec == Init /\ [][Next]_vars /\ \A p \in Procs : WF_vars(Step(p))

\* ---------------------------------------------------------- properties
\* The steps in which the handler of slot p ends.
PostSaved(p) == pc[p] = "save" /\ pc'[p] = "idle"
PutUpdated(p) == pc[p] = "update" /\ pc'[p] = "idle"
GetAnswered(p) == pc[p] \in {"find", "count"} /\ pc'[p] = "idle"

PokeId(p) == ParseInt(req[p].id).val

\* C1: in every reachable state, with POST, PUT and DELETE handlers interleaved
\* at every await, no two documents of the collection hold the same id.
C1_UniqueIds == Cardinality(Ids(store)) = Len(store)

\* Two POST raced for the same id: one was stored, the other got 500.
C1_Witness ==
    /\ sent.req.kind = "POST"
    /\ sent.resp.status = 500
    /\ Len(store) = Len(Seeded) + 1

\* C2: with one request at a time, a POST that passed validation is answered
\* 201 and appends one document whose id is the maximum stored id plus one, or
\* 1 when the collection is empty.
C2_MaxPlusOne ==
    [][\A p \in Procs :
          PostSaved(p) =>
            /\ sent'.resp.status = 201
            /\ store' = Append(store, sent'.resp.pokemon)
            /\ sent'.resp.pokemon.id =
                 IF store = << >> THEN 1 ELSE MaxOf(Ids(store)) + 1]_vars

\* A document was created with id 3 above the ids {2} left by a deletion.
C2_Witness ==
    /\ sent.req.kind = "POST"
    /\ sent.resp.status = 201
    /\ sent.resp.pokemon.id = 3
    /\ Ids(store) = {2, 3}

C4_BaseMerge ==
    [][\A p \in Procs :
          (PutUpdated(p) /\ Has(req[p].body, "base")) =>
            /\ FindOne(store', PokeId(p)) # NoDoc
            /\ \A s \in Stats :
                  FindOne(store', PokeId(p)).base[s] =
                    IF s \in DOMAIN req[p].body.base /\ req[p].body.base[s] # 0
                    THEN req[p].body.base[s]
                    ELSE FindOne(store, PokeId(p)).base[s]]_vars

\* PUT /pokemons/1 { base: { Attack: 0, Defense: 70 } } kept Attack 49 and set
\* Defense 70.
C4_Witness ==
    /\ sent.req.kind = "PUT"
    /\ sent.req.body = [base |-> [Attack |-> 0, Defense |-> 70]]
    /\ sent.resp.status = 200
    /\ sent.resp.pokemon.id = 1
    /\ sent.resp.pokemon.base.Attack = 49
    /\ sent.resp.pokemon.base.Defense = 70
    /\ FindOne(store, 1) = sent.resp.pokemon

\* C5: the update of a PUT keeps the number, the order and the ids of the
\* documents, changes no document but the one it targets, and leaves each of
\* name, type, base, image that the body does not hold as it was.
C5_Frame ==
    [][\A p \in Procs :
          PutUpdated(p) =>
            /\ Len(store') = Len(store)
            /\ \A i \in 1..Len(store) :
                  /\ store'[i].id = store[i].id
                  /\ i # IndexOf(store, PokeId(p)) => store'[i] = store[i]
                  /\ \A f \in TopLevel \ DOMAIN req[p].body :
                        store'[i][f] = store[i][f]]_vars

\* PUT /pokemons/1 { type: ["Fire"] } replaced the type and nothing else.
C5_Witness ==
    /\ sent.req.kind = "PUT"
    /\ sent.req.body = [type |-> << "Fire" >>]
    /\ sent.resp.status = 200
    /\ sent.resp.pokemon = [Seeded[1] EXCEPT !.type = << "Fire" >>]
    /\ FindOne(store, 1) = sent.resp.pokemon

\* The integer a query value stands for according to the contract page >= 1,
\* limit >= 1: a decimal numeral of value at least 1, and the default otherwise.
Contracted(s, default) ==
    IF s # << >> /\ (\A i \in 1..Len(s) : s[i] \in Digits) /\ DigitPrefix(s, 0) >= 1
    THEN DigitPrefix(s, 0)
    ELSE default

\* C6: with one request at a time, GET /pokemons answers 200 with the envelope
\* of skip = (page-1)*limit, totalPages = ceil(total/limit), hasNextPage iff
\* page < totalPages, hasPrevPage iff page > 1 and, as data, the documents at
\* positions skip+1..skip+limit of the id-ascending order, where an invalid
\* page or limit counts as page = 1 or limit = 20.
C6_Envelope ==
    [][\A p \in Procs :
          GetAnswered(p) =>
            LET page == Contracted(req[p].page, DefaultPage)
                limit == Contracted(req[p].limit, DefaultLimit)
                total == Len(store)
                skip == (page - 1) * limit
                totalPages == (total + limit - 1) \div limit
            IN  /\ sent'.resp.status = 200
                /\ sent'.resp.pagination =
                     [currentPage |-> page, totalPages |-> totalPages,
                      totalPokemons |-> total, limit |-> limit,
                      hasNextPage |-> page < totalPages,
                      hasPrevPage |-> page > 1]
                /\ sent'.resp.data =
                     SubSeq(SortById(store), skip + 1, Min(total, skip + limit))]_vars

\* A query value on which the code and the contract agree: absent, a numeral,
\* or a text that starts with no digit, sign or blank.
Agreed(s) ==
    \/ s = << >>
    \/ \A i \in 1..Len(s) : s[i] \in Digits
    \/ s[1] \notin Digits \cup {"-", "+", " "}

\* The part of C6 that the code satisfies: the same envelope and data for the
\* requests whose page and limit are absent, numerals or plain text.
C6_EnvelopeOfAgreed ==
    [][\A p \in Procs :
          (GetAnswered(p) /\ Agreed(req[p].page) /\ Agreed(req[p].limit)) =>
            LET page == Contracted(req[p].page, DefaultPage)
                limit == Contracted(req[p].limit, DefaultLimit)
                total == Len(store)
                skip == (page - 1) * limit
                totalPages == (total + limit - 1) \div limit
            IN  /\ sent'.resp.status = 200
                /\ sent'.resp.pagination =
                     [currentPage |-> page, totalPages |-> totalPages,
                      totalPokemons |-> total, limit |-> limit,
                      hasNextPage |-> page < totalPages,
                      hasPrevPage |-> page > 1]
                /\ sent'.resp.data =
                     SubSeq(SortById(store), skip + 1, Min(total, skip + limit))]_vars

\* C7: a 200 answer to PUT carries the document that the update changed; a PUT
\* whose target is gone when the update is applied is not answered 200.
C7_NoEmptySuccess ==
    (sent.req.kind = "PUT" /\ sent.resp.status = 200) => sent.resp.pokemon # NoDoc

FailedDownloads == {"notok", "rejected", "bodyfailed"}

\* C8: with one request at a time, a POST whose http image could not be
\* downloaded writes no asset file, is answered 201 and stores the document
\* with the deterministic image URI of its id.
C8_DownloadFailureIgnored ==
    [][\A p \in Procs :
          /\ (pc[p] = "fetch" /\ pc'[p] = "save" /\ download'[p] \in FailedDownloads)
                => files' = files
          /\ (PostSaved(p) /\ download[p] \in FailedDownloads) =>
                /\ files' = files
                /\ sent'.resp.status = 201
                /\ sent'.resp.pokemon.id = newId[p]
                /\ sent'.resp.pokemon.image = ImageUri(newId[p])
                /\ FindOne(store', newId[p]) = sent'.resp.pokemon]_vars

\* A POST with an http image was answered 201 and its id has no asset file.
C8_Witness ==
    /\ sent.req.kind = "POST"
    /\ Has(sent.req.body, "image")
    /\ StartsWithHttp(sent.req.body.image)
    /\ sent.resp.status = 201
    /\ sent.resp.pokemon.image = ImageUri(sent.resp.pokemon.id)
    /\ sent.resp.pokemon.id \notin files
    /\ sent.resp.pokemon.id \in Ids(store)

\* C9: a POST that waits for the image host ends with a response, whether or
\* not the host ever answers.
C9_PostCompletes ==
    \A p \in Procs : (pc[p] = "fetch") ~> (pc[p] = "idle")

\* C10: when a PUT of { base: { Defense: 70 } } is answered right after a PUT of
\* { base: { Attack: 80 } } on the same document, both with 200 and a document,
\* the document holds Attack 80 and Defense 70.
C10_BothPatchesKept ==
    [][\A p \in Procs :
          ( /\ PutUpdated(p)
            /\ req[p].body = BodyDefense
            /\ sent.req.kind = "PUT"
            /\ sent.req.body = BodyAttack
            /\ sent.req.id = req[p].id
            /\ sent.resp.status = 200
            /\ sent.resp.pokemon # NoDoc
            /\ sent'.resp.pokemon # NoDoc ) =>
            /\ FindOne(store', PokeId(p)).base.Attack = 80
            /\ FindOne(store', PokeId(p)).base.Defense = 70]_vars

====
